---- MODULE Spec2Model ----
(***************************************************************************)
(* Kinematic controller and area state machine of the Ursina and pygame    *)
(* variants of the Super Mario 64 recreation.                              *)
(*                                                                         *)
(*   SpecFixed  mario64_physics_fixed.py  (dt cap, clamp, five-ray probe)  *)
(*   Spec641    Mario641.0.py             (single ray, pickups, portals)   *)
(*   SpecWin    Mario641.0.py             (the win condition alone)        *)
(*   SpecDecomp pcdecomp1.010.4.25.py     (single ray, stars, portals)     *)
(*   SpecPort   x.x.xsm64pcport10.4.25.py (jumps, platforms, pause)        *)
(*   SpecShine  SM64PCDECOMPY1.0A10.4.25.v0.py (the gravity cheat)         *)
(*                                                                         *)
(* Arithmetic is exact integer arithmetic in scaled units: time in units   *)
(* of 1/TicksPerSecond s, velocity in units of 1/TicksPerSecond per        *)
(* second, length in units of 1/TicksPerSecond^2, so that                  *)
(*     vel' = vel - GRAVITY * dt      and      y' = y + vel * dt           *)
(* are the source's expressions literally.                                 *)
(*                                                                         *)
(* The horizontal position is represented by what the scene offers under   *)
(* the body: for each of the probe rays the set of heights of the          *)
(* collidable surfaces in its column, and the trigger volume the body is   *)
(* inside.  A horizontal displacement (non-zero move input and dt > 0) may *)
(* change that; a tick without one leaves it as it is.                     *)
(***************************************************************************)
EXTENDS Integers, Sequences, FiniteSets, TLC

VARIABLES
    mario,      \* mario64_physics_fixed.py: the Mario entity
    under,      \* mario64_physics_fixed.py: surface heights under the five rays
    landed,     \* mario64_physics_fixed.py: touched ground since the last teleport
    enabled,    \* mario64_physics_fixed.py: enabled flag of each entity group
    probe,      \* mario64_physics_fixed.py: what the last frame did (locals)
    fall_run,   \* mario64_physics_fixed.py: length of the free-fall run from Init
    mario641,   \* Mario641.0.py: the Mario entity
    under641,   \* Mario641.0.py: surface heights under the ray
    coins,      \* Mario641.0.py: enabled flag of each coin
    stars,      \* Mario641.0.py: enabled flag of each star
    bunnies,    \* Mario641.0.py: enabled flag of each bunny
    groups641,  \* Mario641.0.py: enabled flag of each entity group
    loose641,   \* Mario641.0.py: enabled flag of the entities a builder left out
    probe641,   \* Mario641.0.py: what the last frame did (locals)
    marioD,     \* pcdecomp1.010.4.25.py: the Mario entity
    underD,     \* pcdecomp1.010.4.25.py: surface heights under the ray
    starsD,     \* pcdecomp1.010.4.25.py: enabled flag of each star
    groupsD,    \* pcdecomp1.010.4.25.py: enabled flag of each entity group
    probeD,     \* pcdecomp1.010.4.25.py: what the last frame did (locals)
    win,        \* Mario641.0.py: star counter, won latch, victory signals
    marioP,     \* x.x.xsm64pcport10.4.25.py: the Mario object
    platformP,  \* x.x.xsm64pcport10.4.25.py: the platform whose footprint holds (x, z)
    levelP,     \* x.x.xsm64pcport10.4.25.py: collected flag of each coin and star
    gameP,      \* x.x.xsm64pcport10.4.25.py: paused and the camera
    probeP,     \* x.x.xsm64pcport10.4.25.py: what the last frame did (locals)
    shine       \* SM64PCDECOMPY1.0A10.4.25.v0.py: the Shining Stars script

varsFixed == <<mario, under, landed, enabled, probe, fall_run>>
vars641 == <<mario641, under641, coins, stars, bunnies, groups641, loose641, probe641>>
varsDecomp == <<marioD, underD, starsD, groupsD, probeD>>
varsPort == <<marioP, platformP, levelP, gameP, probeP>>
vars == <<varsFixed, vars641, varsDecomp, win, varsPort, shine>>

----------------------------------------------------------------------------
(* Units and bounds *)

TicksPerSecond == 20
VU == TicksPerSecond
YU == TicksPerSecond * TicksPerSecond

\* host frame times offered: 0 .. MaxDt units (MaxDt = 2 is 0.1 s)
MaxDt == 3
MaxStarsWin == 12
MaxHeld == 30
\* x.x.xsm64pcport10.4.25.py: a frame lasts 1 .. MaxLagP steps of 0.5 s
MaxLagP == 2

Max(a, b) == IF a >= b THEN a ELSE b
Min(a, b) == IF a <= b THEN a ELSE b
Abs(a) == IF a < 0 THEN -a ELSE a

----------------------------------------------------------------------------
(* Program constants *)

JUMP_POWER == 12
GRAVITY == 25
STAR_REQUIREMENT == 8

DT_CAP == TicksPerSecond \div 20          \* min(dt, 0.05)
TERMINAL_VELOCITY == -50 * VU             \* max(self.vel.y, -50)
HALF_HEIGHT == (9 * YU) \div 10           \* highest_ground + 0.9
RAY_ORIGIN == (5 * YU) \div 10            \* Vec3(.., 0.5, ..)
RAY_MARGIN == (15 * YU) \div 10           \* abs(vel.y * dt) + 1.5
NO_GROUND == -999 * YU                    \* highest_ground = -999
VOID_Y == -5 * YU                         \* if self.y < -5
RESPAWN_Y == 10 * YU                      \* self.position = (0,10,0)
SPAWN_Y == 2 * YU                         \* position=(0,2,0)
WARP_Y == 5 * YU                          \* mario.position = (0,5,0)
PORTAL_RADIUS == (25 * YU) \div 10        \* distance(...) < 2.5

----------------------------------------------------------------------------
(* Scene of mario64_physics_fixed.py *)

GROUND_Y == 0                             \* courtyard and course planes
DOOR_TOP == (65 * YU) \div 10             \* door: y = 3, scale y = 7

\* a column: the heights of the collidable top surfaces at one horizontal place
Columns == {{}, {GROUND_Y}, {GROUND_Y, DOOR_TOP}}

\* ray_offsets: 1 centre, 2..5 the corners (+,+) (-,+) (+,-) (-,-)
Rays == 1..5

Uniform(c) == [r \in Rays |-> c]

\* the rays beyond a straight edge crossing the footprint: the two +z corners
EdgeSides == {{2, 3}}

Straddle(a, b, S) == [r \in Rays |-> IF r \in S THEN b ELSE a]

UnderConfigs ==
    {Uniform(c) : c \in Columns}
    \cup {Straddle(a, b, S) : a \in Columns, b \in Columns, S \in EdgeSides}

\* what lies under (0, ., 0): the courtyard plane, always enabled
OriginUnder == Uniform({GROUND_Y})

Groups == {"courtyard", "bobomb_battlefield", "whomp_fortress",
           "jolly_roger_bay", "cool_cool_mountain"}

\* paintings + [small_painting]: course_name, star_requirement, position.y
Paintings ==
    { [course_name |-> "bobomb_battlefield", star_requirement |-> 0, y |-> 5 * YU],
      [course_name |-> "whomp_fortress",     star_requirement |-> 1, y |-> 5 * YU],
      [course_name |-> "jolly_roger_bay",    star_requirement |-> 3, y |-> 5 * YU],
      [course_name |-> "cool_cool_mountain", star_requirement |-> 0, y |-> 2 * YU] }

NoPainting == [course_name |-> "none", star_requirement |-> 0, y |-> 0]

\* distance(mario.position, p.position) < 2.5 needs |mario.y - p.y| < 2.5
InReach(p, y) == Abs(y - p.y) < PORTAL_RADIUS

\* held_keys of one frame.  move: d - a or w - s is non-zero; space: the jump
\* key.  held_keys['e'] is read in the portal test alone, so 'e' held away
\* from every painting is the same frame as 'e' not held: the 'e' input of a
\* frame is the painting within whose radius it is held, or NoPainting.
Keys == [move : BOOLEAN, space : BOOLEAN]

----------------------------------------------------------------------------
(* Mario.update of mario64_physics_fixed.py, step by step *)

ClampDtMissing(dt) == dt

ClampDt(dt) == Min(dt, DT_CAP)

GravityStepUpward(v, dt) == v + GRAVITY * dt

GravityStep(v, dt) == v - GRAVITY * dt

ClampFallMin(v) == Min(v, TERMINAL_VELOCITY)

ClampFall(v) == Max(v, TERMINAL_VELOCITY)

RayLengthFixed(v, dt) == RAY_MARGIN

RayLength(v, dt) == Abs(v * dt) + RAY_MARGIN

\* raycast(origin, down, distance): the nearest surface at or below the origin
Raycast(col, origin, dist) ==
    LET inRange == {h \in col : h <= origin /\ origin - h <= dist}
    IN  IF inRange = {}
        THEN [hit |-> FALSE, y |-> NO_GROUND]
        ELSE [hit |-> TRUE, y |-> CHOOSE h \in inRange : \A k \in inRange : k <= h]

GroundProbeCentre(r, u, origin, dist, acc) ==
    LET hit == Raycast(u[1], origin, dist)
    IN  [ground_hit |-> hit.hit, highest_ground |-> hit.y]

\* for offset in ray_offsets: keep the highest hit
RECURSIVE GroundProbe(_, _, _, _, _)
GroundProbe(r, u, origin, dist, acc) ==
    IF r > 5 THEN acc
    ELSE LET hit == Raycast(u[r], origin, dist)
         IN  GroundProbe(r + 1, u, origin, dist,
                 IF hit.hit /\ hit.y > acc.highest_ground
                 THEN [ground_hit |-> TRUE, highest_ground |-> hit.y]
                 ELSE acc)

ShouldSnapStrict(predicted_y, ground_y, v) == predicted_y < ground_y /\ v <= 0

ShouldSnap(predicted_y, ground_y, v) == predicted_y <= ground_y /\ v <= 0

CanJumpInAir(space, on_ground, jump_chain) == space /\ jump_chain < 2

CanJump(space, on_ground, jump_chain) == space /\ on_ground /\ jump_chain < 2

JumpImpulse(jump_chain) ==
    IF jump_chain = 1 THEN (JUMP_POWER * 12 * VU) \div 10 ELSE JUMP_POWER * VU

OutOfBoundsLate(y) == y < 10 * VOID_Y

OutOfBounds(y) == y < VOID_Y

\* Jump (only when truly on ground), then the out of bounds reset
JumpAndReset(m, keys, g, y2, v2, on2, chain2) ==
    LET jump == CanJump(keys.space, on2, chain2)
        reset == OutOfBounds(y2)
    IN  [ body |-> [m EXCEPT !.y = IF reset THEN RESPAWN_Y ELSE y2,
                             !.vel_y = IF reset THEN 0
                                       ELSE IF jump THEN JumpImpulse(chain2) ELSE v2,
                             !.on_ground = IF jump THEN FALSE ELSE on2,
                             !.jump_chain = IF jump THEN chain2 + 1 ELSE chain2],
          locals |-> [ground_hit |-> g.ground_hit,
                      highest_ground |-> g.highest_ground,
                      jumped |-> jump,
                      respawned |-> reset] ]

\* Ground collision resolution
Resolve(m, keys, g, predicted_y, v1) ==
    IF g.ground_hit /\ ShouldSnap(predicted_y, g.highest_ground + HALF_HEIGHT, v1)
    THEN JumpAndReset(m, keys, g, g.highest_ground + HALF_HEIGHT, 0, TRUE, 0)
    ELSE JumpAndReset(m, keys, g, predicted_y, v1, FALSE, m.jump_chain)

\* predicted position and the five raycasts
Predict(m, u, keys, dt, v1) ==
    Resolve(m, keys,
            GroundProbe(1, u, m.y + RAY_ORIGIN, RayLength(v1, dt),
                        [ground_hit |-> FALSE, highest_ground |-> NO_GROUND]),
            m.y + v1 * dt, v1)

\* Mario.update: the body after gravity, ground resolution, jump and reset
MarioStep(m, u, dt_host, keys) ==
    Predict(m, u, keys, ClampDt(dt_host),
            ClampFall(GravityStep(m.vel_y, ClampDt(dt_host))))

\* the body as Mario.update sees and leaves it
Body(m) == [y |-> m.y, vel_y |-> m.vel_y, on_ground |-> m.on_ground,
            jump_chain |-> m.jump_chain]

StartFixed ==
    /\ mario = [y |-> SPAWN_Y, vel_y |-> 0, on_ground |-> FALSE, jump_chain |-> 0,
                current_area |-> "courtyard", stars |-> 0]
    /\ under = OriginUnder
    /\ landed = FALSE
    /\ enabled = [g \in Groups |-> g = "courtyard"]
    /\ probe = [ran |-> FALSE, idle |-> TRUE, rays |-> OriginUnder,
                ground_hit |-> FALSE, highest_ground |-> NO_GROUND,
                jumped |-> FALSE, respawned |-> FALSE, portal |-> NoPainting,
                after |-> [y |-> SPAWN_Y, vel_y |-> 0, on_ground |-> FALSE,
                           jump_chain |-> 0]]
    /\ fall_run = 0

\* warp_to_course(course_name): the body
WarpToCourse(m, course_name) ==
    [m EXCEPT !.current_area = course_name, !.y = WARP_Y]

\* warp_to_course(course_name): the sweep over entity_groups
WarpEnabled(course_name) ==
    [g \in Groups |-> (g = course_name \/ g = "courtyard")]

\* the portal test of update()
PortalFires(p, have) == p # NoPainting

\* time.dt: the host frame times, grouped by the dt the cap makes of them
\* (Mario.update reads time.dt only through the cap)
HostFrameTimes ==
    {{d \in 0..MaxDt : ClampDt(d) = c} : c \in {ClampDt(d) : d \in 0..MaxDt}}

\* update(): mario.update(), then the loop over paintings + [small_painting].
\* Every painting is more than 19 away from the spawn, respawn and warp
\* points, further than the body travels in the air, so a painting is in
\* reach only after the body has landed since it was last placed.
Update ==
    \E dts \in HostFrameTimes, keys \in Keys :
      LET moved == keys.move /\ ClampDt(CHOOSE d \in dts : TRUE) > 0
      IN  \E u \in (IF moved THEN UnderConfigs ELSE {under}) :
          \E s \in {MarioStep(mario, u, CHOOSE d \in dts : TRUE, keys)} :
          \E p \in (IF landed THEN Paintings \cup {NoPainting} ELSE {NoPainting}) :
          \E dt_host \in dts :
            LET warp == PortalFires(p, s.body.stars)
            IN  /\ p # NoPainting => ~s.locals.respawned /\ InReach(p, s.body.y)
                /\ mario' = IF warp THEN WarpToCourse(s.body, p.course_name)
                                    ELSE s.body
                /\ under' = IF warp \/ s.locals.respawned THEN OriginUnder ELSE u
                /\ landed' = IF warp \/ s.locals.respawned THEN FALSE
                              ELSE (landed \/ s.body.on_ground \/ s.locals.jumped)
                /\ enabled' = IF warp THEN WarpEnabled(p.course_name) ELSE enabled
                /\ probe' = [ran |-> TRUE,
                             idle |-> ~keys.move /\ ~keys.space /\ p = NoPainting,
                             rays |-> u,
                             ground_hit |-> s.locals.ground_hit,
                             highest_ground |-> s.locals.highest_ground,
                             jumped |-> s.locals.jumped,
                             respawned |-> s.locals.respawned,
                             portal |-> p,
                             after |-> Body(s.body)]
                /\ fall_run' = IF /\ fall_run >= 0
                                  /\ fall_run < 5
                                  /\ dt_host = TicksPerSecond \div 10
                                  /\ ~keys.move /\ ~keys.space /\ p = NoPainting
                                  /\ ~s.locals.ground_hit
                               THEN fall_run + 1 ELSE -1
                /\ UNCHANGED <<vars641, varsDecomp, win, varsPort, shine>>

----------------------------------------------------------------------------
(* Mario641.0.py: scene, pickups and portals *)

DOOR_TOP641 == 7 * YU                      \* door: y = 3.5, scale y = 7
MOUNTAIN_TOP == 4 * YU                     \* mountain: y = 2, scale y = 4
PLATFORM_TOP == (625 * YU) \div 100        \* platform: y = 6, scale y = 0.5
FORTRESS_TOP == (55 * YU) \div 10          \* fortress_base: y = 5, scale y = 1
TOWER_TOP == 13 * YU                       \* tower: y = 9, scale y = 8
RAY_LENGTH641 == (15 * YU) \div 10         \* distance=1.5
BOB_RATE == YU \div (10 * TicksPerSecond)  \* bob = sin(..) * 0.1; self.y += bob * dt
COIN_RADIUS == (12 * YU) \div 10           \* distance(...) < 1.2
STAR_RADIUS == (18 * YU) \div 10           \* distance(...) < 1.8
BUNNY_RADIUS == (15 * YU) \div 10          \* dist < 1.5

Courses641 == {"castle_grounds", "bobomb_battlefield", "whomp_fortress"}

\* the builders that construct entities without a parent and without
\* appending them to the list they return (decoration, no collider):
\* create_ultra_accurate_peach_castle and create_bobomb_battlefield
Unregistered641 == {"castle_grounds", "bobomb_battlefield"}

\* the columns of the enabled entity group (only enabled entities are hit)
Columns641(course) ==
    CASE course = "castle_grounds" -> {{}, {GROUND_Y}, {GROUND_Y, DOOR_TOP641}}
      [] course = "bobomb_battlefield" ->
            {{}, {GROUND_Y}, {GROUND_Y, MOUNTAIN_TOP, PLATFORM_TOP}}
      [] OTHER -> {{}, {FORTRESS_TOP, TOWER_TOP}}

\* what the enabled group has under (0, ., 0)
Origin641(course) ==
    CASE course = "castle_grounds" -> {GROUND_Y}
      [] course = "bobomb_battlefield" -> {GROUND_Y, MOUNTAIN_TOP, PLATFORM_TOP}
      [] OTHER -> {FORTRESS_TOP, TOWER_TOP}

\* trigger volumes: kind, index in its list, position.y, radius
Coins641 == {[kind |-> "coin", id |-> i, y |-> 2 * YU, radius |-> COIN_RADIUS] : i \in 1..3}

Stars641 == {[kind |-> "star", id |-> 1, y |-> 15 * YU, radius |-> STAR_RADIUS],
             [kind |-> "star", id |-> 2, y |-> -6 * YU, radius |-> STAR_RADIUS]}

\* bunnies hop between y = -7 and y = -6.7: y is the apex, nearest to the body
Bunnies641 == {[kind |-> "bunny", id |-> i, y |-> -7 * YU + (3 * YU) \div 10,
                radius |-> BUNNY_RADIUS] : i \in 1..2}

Paintings641 == {[kind |-> "painting", id |-> 1, y |-> 8 * YU, radius |-> PORTAL_RADIUS],
                 [kind |-> "painting", id |-> 2, y |-> 8 * YU, radius |-> PORTAL_RADIUS]}

NoTrigger == [kind |-> "none", id |-> 0, y |-> 0, radius |-> 0]

\* paintings: course_name and star_requirement by index
PaintingCourse(id) == IF id = 1 THEN "bobomb_battlefield" ELSE "whomp_fortress"

PaintingRequirementNone(id) == 0

PaintingRequirement(id) == IF id = 1 THEN 0 ELSE 3

\* distance(mario.position, t.position) < radius needs |mario.y - t.y| < radius.
\* The volumes are further apart than their radii: the body is in one at most.
Triggers641(y) ==
    {NoTrigger} \cup
    {t \in Coins641 \cup Stars641 \cup Bunnies641 \cup Paintings641 :
        Abs(y - t.y) < t.radius}

----------------------------------------------------------------------------
(* Mario641.0.py: Mario.update *)

Ground641Blind(col, y) == [hit |-> FALSE, y |-> NO_GROUND]

\* raycast from the moved body: distance=1.5 below world_position + 0.5
Ground641(col, y) == Raycast(col, y + RAY_ORIGIN, RAY_LENGTH641)

\* Water/lava reset
NeedsReset641(y, course) == y < VOID_Y /\ course # "basement"

\* jump and reset of Mario641.0.py
JumpAndReset641(m, keys, hit, y2, v2, on2, chain2) ==
    LET jump == CanJump(keys.space, on2, chain2)
        reset == NeedsReset641(y2, m.current_course)
    IN  [ body |-> [m EXCEPT !.y = IF reset THEN RESPAWN_Y ELSE y2,
                             !.vel_y = IF reset THEN 0
                                       ELSE IF jump THEN JumpImpulse(chain2) ELSE v2,
                             !.on_ground = IF jump THEN FALSE ELSE on2,
                             !.jump_chain = IF jump THEN chain2 + 1 ELSE chain2],
          locals |-> [ground_hit |-> hit.hit, jumped |-> jump, respawned |-> reset] ]

\* Ground collision
Collide641(m, keys, hit, y1, v1) ==
    IF hit.hit
    THEN IF v1 <= 0
         THEN JumpAndReset641(m, keys, hit, hit.y + HALF_HEIGHT, 0, TRUE, 0)
         ELSE JumpAndReset641(m, keys, hit, y1, v1, m.on_ground, m.jump_chain)
    ELSE JumpAndReset641(m, keys, hit, y1, v1, FALSE, m.jump_chain)

\* Apply gravity: vel.y -= GRAVITY * dt; position += vel * dt
Integrate641(m, col, keys, dt, y0, v1) ==
    Collide641(m, keys, Ground641(col, y0 + v1 * dt), y0 + v1 * dt, v1)

\* Mario.update: bob is the sign of the walking animation's sin(..)
MarioStep641(m, col, dt, keys, bob) ==
    Integrate641(m, col, keys, dt,
                 IF keys.move THEN m.y + bob * BOB_RATE * dt ELSE m.y,
                 GravityStep(m.vel_y, dt))

----------------------------------------------------------------------------
(* Mario641.0.py: update() *)

Body641(m) == [y |-> m.y, vel_y |-> m.vel_y, on_ground |-> m.on_ground,
               jump_chain |-> m.jump_chain]

Start641 ==
    /\ mario641 = [y |-> SPAWN_Y, vel_y |-> 0, on_ground |-> FALSE, jump_chain |-> 0,
                   coins |-> 0, stars |-> 0, current_course |-> "castle_grounds",
                   bunnies_caught |-> 0, won |-> FALSE]
    /\ under641 = Origin641("castle_grounds")
    /\ coins = [i \in 1..3 |-> TRUE]
    /\ stars = [i \in 1..2 |-> TRUE]
    /\ bunnies = [i \in 1..2 |-> TRUE]
    /\ groups641 = [g \in Courses641 |-> g = "castle_grounds"]
    /\ loose641 = [g \in Unregistered641 |-> TRUE]
    /\ probe641 = [ran |-> FALSE, portal |-> NoTrigger, e |-> FALSE,
                   warped |-> FALSE, stale |-> FALSE,
                   ground_hit |-> FALSE, skipped |-> FALSE,
                   after |-> [y |-> SPAWN_Y, vel_y |-> 0, on_ground |-> FALSE,
                              jump_chain |-> 0]]

CollectsInside(is_enabled, inside) == inside

\* if coin.enabled and distance(...) < 1.2 (the same test for stars, bunnies)
Collects(is_enabled, inside) == is_enabled /\ inside

PortalOpenNoKey(have, star_requirement, e) == have >= star_requirement

\* if mario.stars >= painting.star_requirement and held_keys['e']
PortalOpen(have, star_requirement, e) == have >= star_requirement /\ e

\* warp_to_course(course_name): the body
WarpToCourse641(m, course_name) ==
    [m EXCEPT !.current_course = course_name, !.y = WARP_Y, !.vel_y = 0]

WarpEnabledKeepCastle(course_name) ==
    [g \in Courses641 |-> g = course_name \/ g = "castle_grounds"]

\* warp_to_course(course_name): the sweep over entity_groups
WarpEnabled641(course_name) == [g \in Courses641 |-> g = course_name]

WinsUnlatched(have, won) == have >= STAR_REQUIREMENT

\* Win condition
Wins(have, won) == have >= STAR_REQUIREMENT /\ ~won

\* Mario.update took the body from above a surface of the column to below
\* the reach of a ray cast from there, and the ray hit nothing
SkipsFloor(col, y0, s) ==
    /\ ~s.locals.ground_hit /\ ~s.locals.respawned
    /\ \E g \in col : y0 >= g + HALF_HEIGHT /\ s.body.y < g - RAY_ORIGIN

\* update() after mario.update(): bunnies, coins, stars, paintings, win
World641(s, col, t, e) ==
    LET inside(kind) == t.kind = kind
        catch == inside("bunny") /\ Collects(bunnies[t.id], TRUE)
        coin == inside("coin") /\ Collects(coins[t.id], TRUE)
        star == inside("star") /\ Collects(stars[t.id], TRUE)
        m1 == [s.body EXCEPT
                 !.bunnies_caught = IF catch THEN @ + 1 ELSE @,
                 !.coins = IF coin THEN @ + 1 ELSE @,
                 !.stars = IF star THEN @ + 1 ELSE @]
        warp == /\ inside("painting")
                /\ PortalOpen(m1.stars, PaintingRequirement(t.id), e)
        m2 == IF warp THEN WarpToCourse641(m1, PaintingCourse(t.id)) ELSE m1
    IN  /\ mario641' = [m2 EXCEPT !.won = @ \/ Wins(m2.stars, @)]
        /\ bunnies' = IF catch THEN [bunnies EXCEPT ![t.id] = FALSE] ELSE bunnies
        /\ coins' = IF coin THEN [coins EXCEPT ![t.id] = FALSE] ELSE coins
        /\ stars' = IF star THEN [stars EXCEPT ![t.id] = FALSE] ELSE stars
        /\ groups641' = IF warp THEN WarpEnabled641(PaintingCourse(t.id))
                                 ELSE groups641
        /\ loose641' = loose641
        /\ under641' = IF warp THEN Origin641(PaintingCourse(t.id))
                        ELSE IF s.locals.respawned
                             THEN Origin641(m1.current_course) ELSE col
        /\ probe641' = [ran |-> TRUE,
                        portal |-> IF inside("painting") THEN t ELSE NoTrigger,
                        e |-> e, warped |-> warp,
                        stale |-> \/ inside("coin") /\ ~coins[t.id]
                                  \/ inside("star") /\ ~stars[t.id],
                        ground_hit |-> s.locals.ground_hit,
                        skipped |-> SkipsFloor(col, mario641.y, s),
                        after |-> Body641(s.body)]

\* time.dt: a frame that takes no time, or the host's frame time
FrameTimes641 == {0, MaxDt}

\* update(): one frame
Update641 ==
    \E dt \in FrameTimes641, keys \in Keys :
      LET moved == keys.move /\ dt > 0
      IN  \E col \in (IF moved THEN Columns641(mario641.current_course)
                               ELSE {under641}),
             bob \in (IF moved THEN {-1, 0, 1} ELSE {0}) :
          \E s \in {MarioStep641(mario641, col, dt, keys, bob)} :
          \E t \in (IF s.locals.respawned THEN {NoTrigger}
                                          ELSE Triggers641(s.body.y)) :
          \E e \in (IF t.kind = "painting" THEN BOOLEAN ELSE {FALSE}) :
              /\ World641(s, col, t, e)
              /\ UNCHANGED <<varsFixed, varsDecomp, win, varsPort, shine>>

----------------------------------------------------------------------------
(* Mario641.0.py: the win condition of update(), frame after frame, with the  *)
(* star counter as an input: the latch is exercised for every count, also     *)
(* those the two stars of the level cannot give.                              *)

StartWin == win = [stars |-> 0, won |-> FALSE, victories |-> 0, held |-> 0]

\* Star collection (gain: a star is collected in this frame) and Win
\* condition; victories counts the 'YOU WIN' texts created, held the frames
\* that ended with mario.stars >= STAR_REQUIREMENT
WinFrame ==
    \E gain \in {0, 1} :
      LET have == win.stars + gain
          fires == Wins(have, win.won)
      IN  /\ have <= MaxStarsWin
          /\ win.held < MaxHeld
          /\ win' = [stars |-> have,
                     won |-> win.won \/ fires,
                     victories |-> win.victories + (IF fires THEN 1 ELSE 0),
                     held |-> IF have >= STAR_REQUIREMENT THEN win.held + 1 ELSE 0]
          /\ UNCHANGED <<varsFixed, vars641, varsDecomp, varsPort, shine>>

----------------------------------------------------------------------------
(* pcdecomp1.010.4.25.py *)

CASTLE_TOP_D == 10 * YU                    \* castle_base: y = 5, scale y = 10
PLATFORM_TOP_D == (625 * YU) \div 100      \* platform (0, 6, 0), scale y = 0.5
BASEMENT_FLOOR_D == (-75 * YU) \div 10     \* basement_floor: y = -8, scale y = 1
HALL_FLOOR_D == (6 * YU) \div 10           \* hall_floor: y = 0.1, scale y = 1
RAY_LENGTH_D == (11 * YU) \div 10          \* distance=1.1
BASEMENT_Y == -7 * YU                      \* mario.position = (0, -7, -35)
BASEMENT_EXIT_Y == -10 * YU                \* if mario.position.y < -10
MAIN_HALL_Y == 1 * YU                      \* mario.position = (0, 1, -35)
STAR_BOB_D == YU \div 2                    \* star.animate('y', star.y + 0.5, ..)

GroupsD == {"castle_grounds", "bobomb_battlefield", "whomp_fortress"}

\* the course names the paintings carry
CoursesD == GroupsD \cup {"cool_cool_mountain", "jolly_roger_bay"}

\* the columns of an entity group (only enabled entities are hit)
ColumnsD(group) ==
    CASE group = "castle_grounds" -> {{}, {GROUND_Y}, {GROUND_Y, CASTLE_TOP_D}}
      [] group = "bobomb_battlefield" ->
            {{}, {GROUND_Y}, {GROUND_Y, MOUNTAIN_TOP, PLATFORM_TOP_D}}
      [] OTHER -> {{}, {FORTRESS_TOP, TOWER_TOP}}

\* what an entity group has under (0, ., 0)
OriginD(group) ==
    CASE group = "castle_grounds" -> {GROUND_Y}
      [] group = "bobomb_battlefield" -> {GROUND_Y, MOUNTAIN_TOP, PLATFORM_TOP_D}
      [] OTHER -> {FORTRESS_TOP, TOWER_TOP}

\* the columns the body can be over, given the groups' flags
PlacesD(flags) == UNION {ColumnsD(g) : g \in {h \in GroupsD : flags[h]}}

\* what the enabled groups have under (0, ., 0)
OriginPlaceD(flags) == UNION {OriginD(g) : g \in {h \in GroupsD : flags[h]}}

\* trigger volumes: the stars bob between y and y + 0.5
StarsD == {[kind |-> "star", id |-> 1, y |-> 12 * YU, radius |-> STAR_RADIUS],
           [kind |-> "star", id |-> 2, y |-> -6 * YU, radius |-> STAR_RADIUS],
           [kind |-> "star", id |-> 3, y |-> 3 * YU, radius |-> STAR_RADIUS]}

PaintingsD == {[kind |-> "painting", id |-> 1, y |-> 8 * YU, radius |-> PORTAL_RADIUS],
               [kind |-> "painting", id |-> 2, y |-> 8 * YU, radius |-> PORTAL_RADIUS],
               [kind |-> "painting", id |-> 3, y |-> 4 * YU, radius |-> PORTAL_RADIUS],
               [kind |-> "painting", id |-> 4, y |-> 4 * YU, radius |-> PORTAL_RADIUS]}

PaintingCourseD(id) ==
    CASE id = 1 -> "bobomb_battlefield" [] id = 2 -> "whomp_fortress"
      [] id = 3 -> "cool_cool_mountain" [] OTHER -> "jolly_roger_bay"

PaintingRequirementD(id) ==
    CASE id = 1 -> 0 [] id = 2 -> 3 [] id = 3 -> 1 [] OTHER -> 2

TriggersD(y) ==
    {NoTrigger} \cup
    {t \in PaintingsD : Abs(y - t.y) < t.radius} \cup
    {t \in StarsD : \E b \in {0, STAR_BOB_D} : Abs(y - (t.y + b)) < t.radius}

----------------------------------------------------------------------------
(* pcdecomp1.010.4.25.py: Mario.update *)

\* raycast(self.world_position, down, distance=1.1) from the moved body
GroundD(col, y) == Raycast(col, y, RAY_LENGTH_D)

\* Jump, then Water/lava collision
JumpAndResetD(m, keys, hit, y2, v2, on2, chain2) ==
    LET jump == keys.space /\ on2
        reset == OutOfBounds(y2)
    IN  [ body |-> [m EXCEPT !.y = IF reset THEN RESPAWN_Y ELSE y2,
                             !.vel_y = IF reset THEN 0
                                       ELSE IF jump THEN JUMP_POWER * VU ELSE v2,
                             !.on_ground = IF jump THEN FALSE ELSE on2,
                             !.jump_chain = IF jump THEN chain2 + 1 ELSE chain2],
          locals |-> [ground_hit |-> hit.hit, jumped |-> jump, respawned |-> reset] ]

\* Ground collision: snaps only when self.vel.y < 0
CollideD(m, keys, hit, y1, v1) ==
    IF hit.hit
    THEN IF v1 < 0
         THEN JumpAndResetD(m, keys, hit, hit.y + HALF_HEIGHT, 0, TRUE, 0)
         ELSE JumpAndResetD(m, keys, hit, y1, v1, m.on_ground, m.jump_chain)
    ELSE JumpAndResetD(m, keys, hit, y1, v1, FALSE, m.jump_chain)

\* Apply gravity: vel.y -= GRAVITY * dt; position += vel * dt
IntegrateD(m, col, keys, dt, v1) ==
    CollideD(m, keys, GroundD(col, m.y + v1 * dt), m.y + v1 * dt, v1)

\* Mario.update
MarioStepD(m, col, dt, keys) == IntegrateD(m, col, keys, dt, GravityStep(m.vel_y, dt))

----------------------------------------------------------------------------
(* pcdecomp1.010.4.25.py: update() *)

BodyD(m) == [y |-> m.y, vel_y |-> m.vel_y, on_ground |-> m.on_ground,
             jump_chain |-> m.jump_chain]

\* mario.coins, the coins and the bunnies are written by update() and read by
\* nothing else in it: they are left out, like the texts and the camera.
StartDecomp ==
    /\ marioD = [y |-> SPAWN_Y, vel_y |-> 0, on_ground |-> FALSE, jump_chain |-> 0,
                 stars |-> 0, current_course |-> "castle_grounds", won |-> FALSE]
    /\ underD = OriginD("castle_grounds")
    /\ starsD = [i \in 1..3 |-> TRUE]
    /\ groupsD = [g \in GroupsD |-> g = "castle_grounds"]
    /\ probeD = [ran |-> FALSE, portal |-> NoTrigger, e |-> FALSE, warped |-> FALSE,
                 basement |-> FALSE, respawned |-> FALSE,
                 after |-> [y |-> SPAWN_Y, vel_y |-> 0, on_ground |-> FALSE,
                            jump_chain |-> 0]]

\* warp_to_course(course_name): the body
WarpToCourseD(m, course_name) ==
    [m EXCEPT !.current_course = course_name, !.y = WARP_Y, !.vel_y = 0]

\* warp_to_course(course_name): the if / elif chain over the three groups;
\* a course_name with no branch leaves the flags as they are
WarpEnabledD(flags, course_name) ==
    IF course_name \in GroupsD THEN [g \in GroupsD |-> g = course_name] ELSE flags

\* if mario.stars >= painting.star_requirement: if held_keys['e']
PortalOpenD(have, star_requirement, e) == have >= star_requirement /\ e

\* Basement access
EntersBasement(y, course) == y < VOID_Y /\ course = "castle_grounds"

\* Return from basement
LeavesBasement(y) == y < BASEMENT_EXIT_Y

\* update() after mario.update(): stars, paintings, basement, win
WorldD(s, col, t, e) ==
    LET star == t.kind = "star" /\ Collects(starsD[t.id], TRUE)
        m1 == [s.body EXCEPT !.stars = IF star THEN @ + 1 ELSE @]
        warp == /\ t.kind = "painting"
                /\ PortalOpenD(m1.stars, PaintingRequirementD(t.id), e)
        m2 == IF warp THEN WarpToCourseD(m1, PaintingCourseD(t.id)) ELSE m1
        flags == IF warp THEN WarpEnabledD(groupsD, PaintingCourseD(t.id)) ELSE groupsD
        down == EntersBasement(m2.y, m2.current_course)
        m3 == IF down THEN [m2 EXCEPT !.y = BASEMENT_Y] ELSE m2
        up == LeavesBasement(m3.y)
        m4 == IF up THEN [m3 EXCEPT !.y = MAIN_HALL_Y] ELSE m3
    IN  /\ marioD' = [m4 EXCEPT !.won = @ \/ Wins(m4.stars, @)]
        /\ starsD' = IF star THEN [starsD EXCEPT ![t.id] = FALSE] ELSE starsD
        /\ groupsD' = flags
        /\ underD' = IF up THEN {HALL_FLOOR_D}
                      ELSE IF down THEN {BASEMENT_FLOOR_D}
                      ELSE IF warp \/ s.locals.respawned THEN OriginPlaceD(flags)
                      ELSE col
        /\ probeD' = [ran |-> TRUE,
                      portal |-> IF t.kind = "painting" THEN t ELSE NoTrigger,
                      e |-> e, warped |-> warp, basement |-> down,
                      respawned |-> s.locals.respawned,
                      after |-> BodyD(s.body)]

\* time.dt: a frame that takes no time, or the host's frame time
FrameTimesD == {0, MaxDt}

\* update(): one frame
UpdateDecomp ==
    \E dt \in FrameTimesD, keys \in Keys :
      LET moved == keys.move /\ dt > 0
      IN  \E col \in (IF moved THEN PlacesD(groupsD) ELSE {underD}) :
          \E s \in {MarioStepD(marioD, col, dt, keys)} :
          \E t \in (IF s.locals.respawned THEN {NoTrigger} ELSE TriggersD(s.body.y)) :
          \E e \in (IF t.kind = "painting" THEN BOOLEAN ELSE {FALSE}) :
              /\ WorldD(s, col, t, e)
              /\ UNCHANGED <<varsFixed, vars641, win, varsPort, shine>>

----------------------------------------------------------------------------
(* x.x.xsm64pcport10.4.25.py: constants and the test level *)

GRAVITY_P == -4
TERMINAL_VELOCITY_P == -75 * VU
JUMP_VELOCITY == 18 * VU
DOUBLE_JUMP_VELOCITY == 20 * VU
TRIPLE_JUMP_VELOCITY == 25 * VU
LONG_JUMP_VELOCITY == 15 * VU
WATER_LEVEL == -10 * YU                    \* Level.__init__: water_level = -10.0

JumpActions == {"JUMPING", "DOUBLE_JUMPING", "TRIPLE_JUMPING"}

\* create_test_level: the ground slab is platform 0, the five raised
\* platforms are 1..5 (i = 0..4 of the loop, y = i * 3 + 2, one unit thick)
PlatformP(k) ==
    IF k = 0 THEN [min_y |-> -1 * YU, max_y |-> 0]
    ELSE [min_y |-> ((k - 1) * 3 + 2) * YU, max_y |-> ((k - 1) * 3 + 3) * YU]

\* where (x, z) can be: over the ground slab alone (0), or inside the
\* footprint of raised platform k as well (the raised platforms followed)
FootprintsP == {0, 1}

\* the platforms whose footprint holds (x, z)
PlatformsAt(k) == {PlatformP(0)} \cup {PlatformP(j) : j \in {k} \ {0}}

\* the coin followed (the level's 20 coins are one loop body at y = 2,
\* collected at dist < 1.5) and the two stars (dist < 2.0)
CoinsP == {[kind |-> "coin", id |-> 1, y |-> 2 * YU, radius |-> (15 * YU) \div 10]}

StarsP == {[kind |-> "star", id |-> 1, y |-> 15 * YU, radius |-> 2 * YU],
           [kind |-> "star", id |-> 2, y |-> 8 * YU, radius |-> 2 * YU]}

\* the pickup within whose radius (x, z) can bring the body at height y; the
\* pickups are further apart than their radii and none of them is within
\* its radius of a raised platform's footprint
TriggersP(k, y) ==
    {NoTrigger} \cup
    {t \in (IF k = 0 THEN CoinsP \cup StarsP ELSE {}) : Abs(y - t.y) < t.radius}

\* keys of one frame: move (w - s or d - a non-zero), space, left shift
KeysP == [move : BOOLEAN, space : BOOLEAN, shift : BOOLEAN]

----------------------------------------------------------------------------
(* x.x.xsm64pcport10.4.25.py: Mario.update *)

\* Mario.jump
JumpP(m) ==
    CASE m.jump_counter = 0 ->
            [m EXCEPT !.vel_y = JUMP_VELOCITY, !.action = "JUMPING",
                      !.on_ground = FALSE]
      [] m.jump_counter = 1 ->
            [m EXCEPT !.vel_y = DOUBLE_JUMP_VELOCITY, !.action = "DOUBLE_JUMPING",
                      !.on_ground = FALSE]
      [] m.jump_counter = 2 ->
            [m EXCEPT !.vel_y = TRIPLE_JUMP_VELOCITY, !.action = "TRIPLE_JUMPING",
                      !.jump_counter = 0, !.on_ground = FALSE]
      [] OTHER -> [m EXCEPT !.on_ground = FALSE]

\* Mario.long_jump
LongJumpP(m) ==
    [m EXCEPT !.vel_y = LONG_JUMP_VELOCITY, !.action = "LONG_JUMPING",
              !.on_ground = FALSE]

\* Mario.ground_pound: velocity.y = -50.0
GroundPoundP(m) ==
    [m EXCEPT !.vel_y = -50 * VU, !.action = "GROUND_POUNDING"]

\* ground_movement: Update facing angle (fast: vel_2d > 6)
FacingActionP(keys, fast) ==
    IF keys.move THEN (IF fast THEN "RUNNING" ELSE "WALKING") ELSE "IDLE"

\* ground_movement: Jumping
JumpingP(m, keys) == IF keys.space THEN JumpP(m) ELSE m

\* ground_movement: Long jump (run + crouch + jump)
LongJumpingP(m, keys) ==
    IF keys.space /\ keys.shift /\ m.action = "RUNNING" THEN LongJumpP(m) ELSE m

\* Mario.ground_movement
GroundMovementP(m, keys, fast) ==
    IF keys.shift
    THEN [m EXCEPT !.action = "CROUCHING"]
    ELSE LongJumpingP(JumpingP([m EXCEPT !.action = FacingActionP(keys, fast)], keys),
                      keys)

\* Mario.air_movement
AirMovementP(m, keys) ==
    IF keys.shift /\ m.action # "GROUND_POUNDING" THEN GroundPoundP(m) ELSE m

\* Apply gravity
ApplyGravityP(m, dt) ==
    IF ~m.on_ground
    THEN [m EXCEPT !.vel_y = Max(TERMINAL_VELOCITY_P, @ + GRAVITY_P * dt)]
    ELSE m

\* Update position
UpdatePositionP(m, dt) == [m EXCEPT !.y = @ + m.vel_y * dt]

GroundCollisionOpen(m) == [m EXCEPT !.on_ground = FALSE]

\* handle_collision: Simple ground collision
GroundCollisionP(m) ==
    IF m.y <= 0
    THEN [m EXCEPT !.y = 0, !.vel_y = 0, !.on_ground = TRUE]
    ELSE [m EXCEPT !.on_ground = FALSE]

\* check_platform_collision: the y part of the AABB test
CheckPlatformCollision(y, platform) ==
    y < platform.max_y /\ y > platform.min_y - 2 * YU

\* handle_collision: Platform collision
PlatformCollisionP(m, k) ==
    IF \E platform \in PlatformsAt(k) : CheckPlatformCollision(m.y, platform)
    THEN [m EXCEPT !.on_ground = TRUE, !.vel_y = 0]
    ELSE m

\* Mario.check_water_level
CheckWaterLevelP(m) ==
    IF m.y < WATER_LEVEL
    THEN [m EXCEPT !.in_water = TRUE, !.action = "SWIMMING"]
    ELSE [m EXCEPT !.in_water = FALSE]

\* Update timers (air_timer is written here and read nowhere: left out)
UpdateTimersP(m, prev_action) ==
    IF m.on_ground /\ m.vel_y <= 0 /\ prev_action \in JumpActions
    THEN [m EXCEPT !.jump_counter = Min(2, @ + 1)]
    ELSE m

\* Mario.update(keys, dt, level) with (x, z) ending inside footprint k
MarioUpdateP(m, k, keys, fast, dt) ==
    UpdateTimersP(
      CheckWaterLevelP(
        PlatformCollisionP(
          GroundCollisionP(
            UpdatePositionP(
              ApplyGravityP(
                IF m.on_ground THEN GroundMovementP(m, keys, fast)
                               ELSE AirMovementP(m, keys),
                dt),
              dt)),
          k)),
      m.action)

----------------------------------------------------------------------------
(* x.x.xsm64pcport10.4.25.py: Level.update, LakituCamera.update, SM64Game *)

StartPort ==
    /\ marioP = [y |-> 10 * YU, vel_y |-> 0, action |-> "IDLE", jump_counter |-> 0,
                 on_ground |-> FALSE, in_water |-> FALSE, coins |-> 0, stars |-> 0]
    /\ platformP = 0
    /\ levelP = [coins |-> [i \in 1..1 |-> FALSE], stars |-> [i \in 1..2 |-> FALSE]]
    /\ gameP = [paused |-> FALSE, target_y |-> 0]
    /\ probeP = [ran |-> FALSE, frozen |-> FALSE, did |-> "none", chain |-> <<>>]

\* Level.update(mario, dt): the coin or star t within reach is collected
LevelUpdateP(m, t) ==
    LET coin == t.kind = "coin" /\ ~levelP.coins[t.id]
        star == t.kind = "star" /\ ~levelP.stars[t.id]
    IN  /\ marioP' = [m EXCEPT !.coins = IF coin THEN @ + 1 ELSE @,
                               !.stars = IF star THEN @ + 1 ELSE @]
        /\ levelP' = [coins |-> IF coin THEN [levelP.coins EXCEPT ![t.id] = TRUE]
                                        ELSE levelP.coins,
                      stars |-> IF star THEN [levelP.stars EXCEPT ![t.id] = TRUE]
                                        ELSE levelP.stars]

\* LakituCamera.update: target = mario_pos + (0, 3, 0) (yaw, pitch and the
\* smoothed position are written by the same call and are left out)
CameraUpdateP(m) == [gameP EXCEPT !.target_y = m.y + 3 * YU]

\* handle_events: each KEYDOWN of K_p flips paused
HandleEvents(paused, presses) == IF presses % 2 = 1 THEN ~paused ELSE paused

UpdateUnpausable(paused) == TRUE

\* SM64Game.update: if not self.paused
UpdateRuns(paused) == ~paused

\* which of the key-driven calls Mario.update made: jump() ("jump"),
\* ground_pound() ("pound"), the crouch return with space held as well
\* ("crouch_jump"), or none of them
DidP(m, keys) ==
    IF m.on_ground
    THEN (IF keys.shift THEN (IF keys.space THEN "crouch_jump" ELSE "none")
          ELSE IF keys.space THEN "jump" ELSE "none")
    ELSE (IF keys.shift /\ m.action # "GROUND_POUNDING" THEN "pound" ELSE "none")

\* the actions of the jumps made while space stays held (and left shift is
\* not), starting with a jump from the ground at jump_counter = 0: the
\* first four
ChainP(keys, jumped, action) ==
    IF ~keys.space \/ keys.shift THEN <<>>
    ELSE IF probeP.chain = <<>>
         THEN (IF jumped /\ marioP.jump_counter = 0 THEN <<action>> ELSE <<>>)
         ELSE IF jumped /\ Len(probeP.chain) < 4
              THEN Append(probeP.chain, action)
              ELSE probeP.chain

\* clock.tick(60) / 1000.0: a frame lasts 1/60 s or longer, without a cap;
\* the frames offered last whole multiples of 0.5 s
FrameTimesPort == {n * (TicksPerSecond \div 2) : n \in 1..MaxLagP}

\* handle_events of one pass of the loop of SM64Game.run, with K_p pressed
\* once or twice among its events
KeyDownP ==
    \E presses \in 1..2 :
      /\ gameP' = [gameP EXCEPT !.paused = HandleEvents(@, presses)]
      /\ UNCHANGED <<marioP, platformP, levelP, probeP>>
      /\ UNCHANGED <<varsFixed, vars641, varsDecomp, win, shine>>

\* SM64Game.update(dt, keys, mouse_rel) of one pass of the loop
UpdateGameP ==
    IF UpdateRuns(gameP.paused)
    THEN \E keys \in KeysP, dt \in FrameTimesPort :
         \E k \in (IF keys.move THEN FootprintsP ELSE {platformP}),
            fast \in (IF keys.move /\ ~keys.shift /\ marioP.on_ground
                      THEN BOOLEAN ELSE {FALSE}) :
         \E m \in {MarioUpdateP(marioP, k, keys, fast, dt)} :
         \E t \in TriggersP(k, m.y) :
           /\ LevelUpdateP(m, t)
           /\ platformP' = k
           /\ gameP' = CameraUpdateP(m)
           /\ probeP' = [ran |-> TRUE, frozen |-> FALSE,
                         did |-> DidP(marioP, keys),
                         chain |-> ChainP(keys, DidP(marioP, keys) = "jump",
                                          m.action)]
           /\ UNCHANGED <<varsFixed, vars641, varsDecomp, win, shine>>
    ELSE /\ probeP' = [probeP EXCEPT !.frozen = TRUE]
         /\ UNCHANGED <<marioP, platformP, levelP, gameP>>
         /\ UNCHANGED <<varsFixed, vars641, varsDecomp, win, shine>>

----------------------------------------------------------------------------
(* SM64PCDECOMPY1.0A10.4.25.v0.py: the 'Shining Stars' script *)

DEFAULT_GRAVITY == 1          \* FirstPersonController's gravity, never set by the script
CHEAT_GRAVITY == -20          \* the value input() assigns
DEMO_STARS == 5               \* for i in range(5)

\* where the player is: at the respawn point, within 3 of the pitfall, or
\* anywhere else in the hub
PlacesS == {"spawn", "pitfall", "hub"}

StartShine ==
    shine = [gravity |-> DEFAULT_GRAVITY, third_person |-> FALSE,
             stars |-> 1..DEMO_STARS, stars_collected |-> 0,
             goal_reached |-> FALSE, at |-> "spawn", key |-> "none"]

\* player.gravity = 0 if player.gravity == 0 else -20
ToggleGravity(gravity) == IF gravity = 0 THEN 0 ELSE CHEAT_GRAVITY

\* input(key)
InputS ==
    \E key \in {"c", "i"} :
      /\ shine' = [shine EXCEPT
                     !.third_person = IF key = "c" THEN ~@ ELSE @,
                     !.gravity = IF key = "i" THEN ToggleGravity(@) ELSE @,
                     !.key = key]
      /\ UNCHANGED <<varsFixed, vars641, varsDecomp, win, varsPort>>

\* update(): the stars within 1.5 are collected, Bowser appears at the
\* fifth, and shift held next to the pitfall respawns the player
UpdateS ==
    \E at \in PlacesS, shift \in BOOLEAN :
    \E near \in (IF at = "hub" THEN SUBSET shine.stars ELSE {{}}) :
      LET have == shine.stars_collected + Cardinality(near)
      IN  /\ shine' = [shine EXCEPT
                         !.stars = @ \ near,
                         !.stars_collected = have,
                         !.goal_reached = @ \/ (near # {} /\ have = DEMO_STARS),
                         !.at = IF shift /\ at = "pitfall" THEN "spawn" ELSE at,
                         !.key = "none"]
          /\ UNCHANGED <<varsFixed, vars641, varsDecomp, win, varsPort>>

----------------------------------------------------------------------------
(* Specifications *)

InitFixed == StartFixed /\ Start641 /\ StartDecomp /\ StartWin /\ StartPort /\ StartShine

NextFixed == Update

SpecFixed == InitFixed /\ [][NextFixed]_vars

Init641 == Start641 /\ StartFixed /\ StartDecomp /\ StartWin /\ StartPort /\ StartShine

Next641 == Update641

Spec641 == Init641 /\ [][Next641]_vars

InitDecomp == StartDecomp /\ StartFixed /\ Start641 /\ StartWin /\ StartPort /\ StartShine

NextDecomp == UpdateDecomp

SpecDecomp == InitDecomp /\ [][NextDecomp]_vars

InitWin == StartWin /\ StartFixed /\ Start641 /\ StartDecomp /\ StartPort /\ StartShine

NextWin == WinFrame

SpecWin == InitWin /\ [][NextWin]_vars

InitPort == StartPort /\ StartFixed /\ Start641 /\ StartDecomp /\ StartWin /\ StartShine

NextPort == KeyDownP \/ UpdateGameP

SpecPort == InitPort /\ [][NextPort]_vars

InitShine == StartShine /\ StartFixed /\ Start641 /\ StartDecomp /\ StartWin /\ StartPort

NextShine == InputS \/ UpdateS

SpecShine == InitShine /\ [][NextShine]_vars
----------------------------------------------------------------------------
(* mario64_physics_fixed.py: properties of Mario.update *)

Surfaces == UNION Columns

\* the body rests on a flat surface of height H: H under all five rays
RestsOn(H) ==
    /\ \A r \in Rays : H \in under[r]
    /\ mario.y = H + HALF_HEIGHT
    /\ mario.vel_y = 0

\* C1 as stated: a surface of height g under the body's centre at the start of
\* Mario.update, with g + 0.9 <= y, is still at or below the body's feet at the
\* end of that update (y >= g + 0.9), whatever dt, speed and input.
C1_FloorUnderCentreAtStart ==
    [][\A g \in under[1] :
          g + HALF_HEIGHT <= mario.y => probe'.after.y >= g + HALF_HEIGHT]_vars

\* C1 amended: the same for a surface that is under the centre at the start of
\* the update and still under it when the rays are cast, after that tick's
\* horizontal displacement: the body never passes through it within the tick.
C1_NoTunnelling ==
    [][\A g \in under[1] \cap probe'.rays[1] :
          g + HALF_HEIGHT <= mario.y => probe'.after.y >= g + HALF_HEIGHT]_vars

\* C1 witness: the body came down on the door top, the thin surface above the
\* courtyard, and was snapped onto it.
C1_Witness ==
    /\ probe.ran /\ probe.after.on_ground
    /\ probe.highest_ground = DOOR_TOP
    /\ probe.after.y = DOOR_TOP + HALF_HEIGHT

\* C2: after every Mario.update vel.y >= -50 (the terminal velocity).
C2_TerminalVelocity ==
    /\ probe.after.vel_y >= TERMINAL_VELOCITY
    /\ mario.vel_y >= TERMINAL_VELOCITY

\* C2 witness: an update that left the body falling faster than 20 per second.
C2_Witness == probe.ran /\ ~probe.ground_hit /\ probe.after.vel_y <= -20 * VU

\* C3 as stated: in every tick without horizontal, jump or portal input and
\* without ground detected, vel.y at the end is <= vel.y at the end of the
\* tick before.
C3_MonotoneFall ==
    [][probe'.ran /\ probe'.idle /\ ~probe'.ground_hit
          => probe'.after.vel_y <= mario.vel_y]_vars

\* C3 amended: the same, for the ticks in which the out-of-bounds reset does
\* not fire (the reset puts vel.y back to 0).
C3_MonotoneFallAboveVoid ==
    [][probe'.ran /\ probe'.idle /\ ~probe'.ground_hit /\ ~probe'.respawned
          => probe'.after.vel_y <= mario.vel_y]_vars

\* C3 witness: the third consecutive tick of a free fall without input.
C3_Witness ==
    /\ fall_run = 3 /\ probe.idle /\ ~probe.ground_hit /\ ~probe.respawned
    /\ probe.after.vel_y < 0

\* C4: a body resting on a flat surface of height H (H + 0.9 >= -5) with
\* vel.y = 0 is, after a tick without input and for every dt, still at
\* y = H + 0.9 with vel.y = 0 and on_ground = True.
C4_RestIsIdempotent ==
    [][\A H \in Surfaces :
          RestsOn(H) /\ H + HALF_HEIGHT >= VOID_Y /\ probe'.ran /\ probe'.idle
          => /\ probe'.after = [y |-> H + HALF_HEIGHT, vel_y |-> 0,
                                on_ground |-> TRUE, jump_chain |-> 0]
             /\ Body(mario') = probe'.after
             /\ RestsOn(H)']_vars

\* C4 witness: an idle tick that left the body resting on the courtyard.
C4_Witness ==
    /\ RestsOn(GROUND_Y) /\ probe.ran /\ probe.idle /\ mario.on_ground
    /\ probe.highest_ground = GROUND_Y

\* C5: the jump issued on re-landing after a first jump (jump_chain = 1 when
\* the tick starts) is the second of the chain: it leaves jump_chain = 2 and
\* sets vel.y to JUMP_POWER * 1.2, more than the first jump's JUMP_POWER.
C5_SecondJumpIsStronger ==
    [][probe'.jumped /\ mario.jump_chain = 1
          => /\ probe'.after.jump_chain = 2
             /\ probe'.after.vel_y = JumpImpulse(1)
             /\ JumpImpulse(1) > JumpImpulse(0)]_vars

\* C6: a tick sets a jump impulse only if in that tick a ground hit was
\* resolved and the body snapped onto it.
C6_JumpOnlyGrounded ==
    probe.jumped =>
        /\ probe.ground_hit
        /\ probe.after.y = probe.highest_ground + HALF_HEIGHT
        /\ probe.after.vel_y \in {JumpImpulse(0), JumpImpulse(1)}

\* C6 witness: a tick that jumped.
C6_Witness == probe.jumped /\ ~probe.after.on_ground /\ probe.after.jump_chain = 1

\* C7: at the end of every Mario.update y >= -5; the tick whose y went below
\* -5 ends at (0,10,0) with velocity zero.
C7_VoidRespawn ==
    /\ probe.after.y >= VOID_Y
    /\ mario.y >= VOID_Y
    /\ probe.respawned =>
          /\ probe.after.y = RESPAWN_Y /\ probe.after.vel_y = 0
          /\ Body(mario) = probe.after
          /\ under = OriginUnder

\* C7 witness: a tick in which the reset fired.
C7_Witness == probe.respawned /\ mario.y = RESPAWN_Y

\* C8 as stated: after five ticks of free fall from (0,2,0) at host dt = 0.1
\* vel.y = -0.1 * GRAVITY * 5, and y is lower after each of the ticks.
C8_FreeFallAtHostDt ==
    [][/\ fall_run' = 5 =>
            probe'.after.vel_y = -(GRAVITY * (TicksPerSecond \div 10) * 5)
       /\ fall_run' \in 1..5 => probe'.after.y < mario.y]_vars

\* C8 amended: dt is capped at 0.05, so after the k-th of the five ticks
\* vel.y = -0.05 * GRAVITY * k (-6.25 after the fifth), and y is lower after
\* each of the ticks.
C8_FreeFallAtCappedDt ==
    [][fall_run' \in 1..5 =>
          /\ probe'.after.vel_y = -(GRAVITY * DT_CAP * fall_run')
          /\ probe'.after.y < mario.y]_vars

\* C8 witness: the fifth tick of the run.
C8_Witness == fall_run = 5 /\ probe.after.vel_y = -(GRAVITY * DT_CAP * 5)

----------------------------------------------------------------------------
(* mario64_physics_fixed.py: portals and the ground probe *)

\* C13: a warp attempted at a painting whose star_requirement is greater than
\* mario.stars is a no-op: the frame's portal check leaves mario.current_area
\* and the body's position as Mario.update left them, also with 'e' held
\* inside the radius.
C13_LockedPortalIsNoOp ==
    [][(probe'.portal # NoPainting /\ probe'.portal.star_requirement > mario.stars)
          => /\ mario'.current_area = mario.current_area
             /\ mario'.y = probe'.after.y]_vars

\* C14: after every warp_to_course(target) exactly one area's entity group is
\* enabled, the target's; the four others, the courtyard's among them, are
\* disabled.
C14_OnlyTargetEnabled ==
    probe.portal # NoPainting =>
        \A g \in Groups : enabled[g] <=> g = probe.portal.course_name

\* C15: warp_to_course sets the active area to the target, the body to the
\* spawn point (0,5,0) and the velocity to zero, whatever it was before.
C15_WarpZeroesVelocity ==
    [][probe'.portal # NoPainting
          => /\ mario'.current_area = probe'.portal.course_name
             /\ mario'.y = WARP_Y
             /\ mario'.vel_y = 0]_vars

\* the hit heights of the five rays of the frame just run, had it taken dt
RayHits(dt) ==
    LET origin == mario.y + RAY_ORIGIN
        dist == RayLength(ClampFall(GravityStep(mario.vel_y, dt)), dt)
    IN  {h \in UNION {probe'.rays[r] : r \in Rays} : h <= origin /\ origin - h <= dist}

----------------------------------------------------------------------------
(* Mario641.0.py: pickups and portals *)

Taken(flags) == {i \in DOMAIN flags : ~flags[i]}

\* C9: every coin and every star adds exactly 1 to its counter over the whole
\* session, however many frames the body stays inside its radius (mario.coins
\* and mario.stars count the disabled coins and stars), and a disabled coin or
\* star is never enabled again, by a later frame or by a warp_to_course sweep.
C9_CollectedOnce ==
    /\ [](/\ mario641.coins = Cardinality(Taken(coins))
          /\ mario641.stars = Cardinality(Taken(stars)))
    /\ [][/\ Taken(coins) \subseteq Taken(coins')
          /\ Taken(stars) \subseteq Taken(stars')]_vars

\* two coins and a star are taken, the body has warped to a course since and
\* is in this frame inside the radius of a pickup it took before
C9_Witness ==
    /\ Cardinality(Taken(coins)) = 2 /\ mario641.coins = 2
    /\ Taken(stars) = {2} /\ mario641.stars = 1
    /\ mario641.current_course = "bobomb_battlefield"
    /\ probe641.stale

\* C10: current_course and the enabled groups change in a frame only if in
\* that frame 'e' is held, the body is within 2.5 of a painting and mario.stars
\* is at least that painting's star_requirement; in every other frame the
\* course, the body and the groups' flags are as Mario.update left them.
C10_PortalGate ==
    [][LET fired == /\ probe641'.e
                    /\ probe641'.portal # NoTrigger
                    /\ mario641'.stars >= PaintingRequirement(probe641'.portal.id)
       IN  ~fired => /\ mario641'.current_course = mario641.current_course
                     /\ groups641' = groups641
                     /\ Body641(mario641') = probe641'.after]_vars

\* in a course reached through a portal, 'e' is held inside the radius of the
\* painting that asks for 3 stars, with fewer stars: no warp
C10_Witness ==
    /\ mario641.current_course = "bobomb_battlefield"
    /\ groups641 = WarpEnabled641("bobomb_battlefield")
    /\ probe641.e /\ probe641.portal.id = 2
    /\ mario641.stars < PaintingRequirement(2)
    /\ ~probe641.warped

----------------------------------------------------------------------------
(* Mario641.0.py: the active course *)

\* C11: in every state between frames exactly one of the three registered
\* entity groups is enabled, the other two are disabled, and the enabled
\* group is the one mario.current_course names.
C11_OneActiveGroup ==
    /\ Cardinality({g \in Courses641 : groups641[g]}) = 1
    /\ \A g \in Courses641 : groups641[g] <=> g = mario641.current_course

\* a portal has just warped the body out of the castle grounds
C11_Witness ==
    /\ probe641.warped
    /\ mario641.current_course = "bobomb_battlefield"
    /\ mario641.y = WARP_Y

\* C12: every entity a course builder constructs belongs to that course's
\* toggled set: the entities of a builder whose course is not
\* mario.current_course are all disabled, registered or not.
C12_InactiveFullyDisabled ==
    \A g \in Unregistered641 :
        g # mario641.current_course => ~groups641[g] /\ ~loose641[g]

----------------------------------------------------------------------------
(* pcdecomp1.010.4.25.py: the active area *)

\* C16: after every successful warp through any of the four paintings the
\* enabled entities are exactly those of the area mario.current_course names,
\* and the entities of every other known area are disabled.
C16_ActiveAreaEnabled ==
    probeD.warped => \A g \in GroupsD : groupsD[g] <=> g = marioD.current_course

----------------------------------------------------------------------------
(* Mario641.0.py: tunnelling *)

\* C20: with the fixed ray length 1.5, no dt cap and no velocity clamp, a
\* body above a floor can skip past it in a single frame: a frame that moves
\* it down by more than 1.4 can leave it below floor height + 0.9 with no
\* ground detected (and only such a frame can).
C20_SkipNeedsLongStep ==
    [][\A g \in under641' :
          ( /\ ~probe641'.warped
            /\ mario641.y >= g + HALF_HEIGHT
            /\ probe641'.after.y < g + HALF_HEIGHT
            /\ ~probe641'.ground_hit )
          => mario641.y - probe641'.after.y > (14 * YU) \div 10]_vars

\* the frame just run took the body from above the courtyard plane to below
\* it without a hit and without reaching the reset depth
C20_Witness ==
    /\ probe641.skipped /\ ~probe641.ground_hit
    /\ under641 = {GROUND_Y}
    /\ mario641.current_course = "castle_grounds"
    /\ mario641.y < GROUND_Y - RAY_ORIGIN

----------------------------------------------------------------------------
(* Mario641.0.py: victory *)

\* C17: the victory signal (mario.won set, the 'YOU WIN' text created) is
\* emitted at most once in a session: once mario.won is set no later frame
\* emits it again, however long mario.stars stays >= STAR_REQUIREMENT.
C17_VictoryOnce ==
    /\ [](win.victories <= 1)
    /\ [][win.won => win'.won /\ win'.victories = win.victories]_vars

\* the counter has stayed at or above the requirement for MaxHeld frames
\* after the signal
C17_Witness ==
    /\ win.won /\ win.victories = 1
    /\ win.stars > STAR_REQUIREMENT /\ win.held = MaxHeld

\* C18: the stated objective is achievable: some sequence of frames from the
\* initial state takes mario.stars to STAR_REQUIREMENT and emits the victory
\* signal.  mario.stars counts the collected stars, so the level must hold
\* at least STAR_REQUIREMENT of them.
C18_ObjectiveAchievable == Cardinality(DOMAIN stars) >= STAR_REQUIREMENT

----------------------------------------------------------------------------
(* Mario641.0.py: the courses a session can visit *)

\* C29: mario.stars never exceeds the number of star pickups (2), so the
\* whomp_fortress painting (star_requirement 3) never warps:
\* mario.current_course is always castle_grounds or bobomb_battlefield and
\* the whomp_entities group is never enabled.
C29_WhompNeverReached ==
    /\ mario641.stars <= Cardinality(DOMAIN stars)
    /\ mario641.current_course \in {"castle_grounds", "bobomb_battlefield"}
    /\ ~groups641["whomp_fortress"]

\* in the castle grounds, with the star of the basement collected, 'e' is
\* held inside the radius of the whomp_fortress painting: no warp
C29_Witness ==
    /\ mario641.stars = 1 /\ ~stars[2]
    /\ mario641.current_course = "castle_grounds"
    /\ probe641.portal.id = 2 /\ probe641.e
    /\ ~probe641.warped

\* C30: once mario.current_course has left castle_grounds it never becomes
\* castle_grounds again and the castle_entities group is never re-enabled,
\* in any continuation of the session.
C30_NoWayBack ==
    [][mario641.current_course # "castle_grounds"
          => /\ mario641'.current_course # "castle_grounds"
             /\ ~groups641'["castle_grounds"]]_vars

\* a frame begun outside the castle grounds (it did not warp, and the course
\* is bobomb_battlefield) with the body standing in the new course
C30_Witness ==
    /\ mario641.current_course = "bobomb_battlefield"
    /\ ~groups641["castle_grounds"]
    /\ ~probe641.warped /\ probe641.after.on_ground

----------------------------------------------------------------------------
(* pcdecomp1.010.4.25.py: the basement *)

\* C25: when Mario falls below y = -5 while current_course is castle_grounds,
\* the per-frame update teleports him to the basement at (0,-7,-35): the
\* frame in which Mario.update takes the body below -5 ends with the body at
\* the basement entry.
C25_FallEntersBasement ==
    [][(probeD'.respawned /\ marioD.current_course = "castle_grounds")
          => (probeD'.basement /\ marioD'.y = BASEMENT_Y)]_vars

\* the 'Basement access' branch of update() never runs
C25_BasementNeverEntered == ~probeD.basement /\ marioD.y >= VOID_Y

----------------------------------------------------------------------------
(* x.x.xsm64pcport10.4.25.py: jumps *)

JumpCycle == <<"JUMPING", "DOUBLE_JUMPING", "TRIPLE_JUMPING", "JUMPING">>

\* C21: with the jump key held continuously from a grounded start with
\* jump_counter = 0, the successive jumps are single, double, triple, and
\* then the cycle restarts: the jump after a triple jump is a single jump.
C21_JumpCycleRestarts ==
    \A i \in 1..Len(probeP.chain) : probeP.chain[i] = JumpCycle[i]

\* C22: each landing from a jump advances jump_counter by exactly one
\* (capped at 2), and a tick spent standing on the ground without pressing
\* jump leaves it as it is: after a single jump, the landing and any number
\* of such ticks jump_counter is 1.
C22_LandingCountsOnce ==
    [][/\ ( /\ ~probeP'.frozen /\ ~marioP.on_ground /\ marioP'.on_ground
            /\ marioP.action \in JumpActions )
          => marioP'.jump_counter = Min(2, marioP.jump_counter + 1)
       /\ ( /\ ~probeP'.frozen /\ marioP.on_ground /\ marioP'.on_ground
            /\ probeP'.did = "none" )
          => marioP'.jump_counter = marioP.jump_counter]_vars

\* C23: a long jump (run + crouch + jump) can be performed: a tick that
\* starts on the ground with space and left shift held while running
\* executes long_jump() and leaves action = LONG_JUMPING.
C23_LongJumpPerformed ==
    [][( /\ ~probeP'.frozen /\ marioP.on_ground /\ marioP.action = "RUNNING"
         /\ probeP'.did = "crouch_jump" )
          => marioP'.action = "LONG_JUMPING"]_vars

\* long_jump() is never executed
C23_NeverLongJumping == marioP.action # "LONG_JUMPING"

\* C24: gravity is integrated into velocity.y on every tick regardless of
\* ground state, and the result is clamped to the terminal velocity: a tick
\* that ends in the air without a jump or a ground pound ends with
\* velocity.y = max(TERMINAL_VELOCITY, velocity.y + GRAVITY * dt).
C24_GravityEveryTick ==
    [][( /\ ~probeP'.frozen /\ ~marioP'.on_ground /\ probeP'.did = "none" )
          => \E dt \in FrameTimesPort :
                marioP'.vel_y = Max(TERMINAL_VELOCITY_P, marioP.vel_y + GRAVITY_P * dt)]_vars

----------------------------------------------------------------------------
(* x.x.xsm64pcport10.4.25.py: pause and the floor *)

\* C27: while the game is paused no call to SM64Game.update changes Mario's
\* position, velocity, action, jump_counter, on_ground, coins or stars, any
\* coin's or star's collected flag, or the camera state; the 'p' key toggles
\* paused and two presses restore the original value.
C27_PauseFreezes ==
    /\ [][gameP.paused => /\ marioP' = marioP
                          /\ levelP' = levelP
                          /\ platformP' = platformP
                          /\ gameP'.target_y = gameP.target_y]_vars
    /\ [](/\ HandleEvents(gameP.paused, 1) = ~gameP.paused
          /\ HandleEvents(gameP.paused, 2) = gameP.paused)

\* a frame went by while the game was paused in the middle of a jump
C27_Witness ==
    /\ gameP.paused /\ probeP.frozen
    /\ ~marioP.on_ground /\ marioP.vel_y > 0 /\ marioP.action \in JumpActions

\* C28: after every Mario.update pos.y >= 0; consequently, with the level's
\* water_level of -10, in_water is False and action is never SWIMMING.
C28_NeverInWater ==
    /\ marioP.y >= 0
    /\ WATER_LEVEL < 0
    /\ ~marioP.in_water
    /\ marioP.action # "SWIMMING"

\* a ground pound has driven the body into the floor plane, where
\* handle_collision stopped it
C28_Witness ==
    /\ probeP.ran /\ marioP.y = 0 /\ marioP.on_ground
    /\ marioP.action = "GROUND_POUNDING"

----------------------------------------------------------------------------
(* SM64PCDECOMPY1.0A10.4.25.v0.py: the gravity cheat *)

\* C26: pressing 'i' toggles the gravity cheat: from normal (non-zero)
\* gravity one press sets player.gravity to 0, and a press at gravity 0
\* restores non-zero gravity.
C26_CheatToggles ==
    [][shine'.key = "i" => (shine'.gravity = 0 <=> shine.gravity # 0)]_vars

\* player.gravity is never 0
C26_GravityNeverZero == shine.gravity # 0

============================================================================
